---- MODULE Spec2Model ----
(***************************************************************************)
(* Model of platformio/builder/tools/piomisc.py: the InoToCPPConverter     *)
(* (merge -> preprocess -> repair -> declare) and ConvertInoToCpp.         *)
(*                                                                         *)
(* A text is a sequence of tokens.  A token is one character of the text   *)
(* ("\n", " ", "(", "&", ...) or one maximal run of word characters        *)
(* [a-z_\d]+ (an identifier, a keyword or a number), or the head of a      *)
(* directive ("#", "#line", "#include").  None of the regular expressions  *)
(* and string operations of the source can cut such a run in two, except   *)
(* the unanchored head of DETECTMAIN_RE and the unanchored tail of the     *)
(* PROTOPTRS_TPLRE alternation, which are modelled by EndsWithVoid and     *)
(* HasNamePrefix.                                                          *)
(***************************************************************************)
EXTENDS Integers, Sequences, FiniteSets, TLC

VARIABLES contents, phase, pos, linenum, stropen, newlines, out, out2,
          prototypes, split_pos,
          nodes, main_ino, pc, raised, tmp_created, out_exists, produced,
          exit_code,
          registered, out_file

vars == <<contents, phase, pos, linenum, stropen, newlines, out, out2,
          prototypes, split_pos,
          nodes, main_ino, pc, raised, tmp_created, out_exists, produced,
          exit_code,
          registered, out_file>>

joinVars == <<pos, linenum, stropen, newlines, out2>>
protoVars == <<prototypes, split_pos>>
pipeVars == <<nodes, main_ino, pc, raised, tmp_created, out_exists,
              produced, exit_code, registered, out_file>>

(***************************************************************************)
(* Bounds                                                                  *)
(***************************************************************************)
MaxLines == 4
MaxNum == 12

(***************************************************************************)
(* Characters and string primitives                                        *)
(***************************************************************************)
NL == "\n"
BS == "\\"
QUOTE == "\""
\* the None returned by _parse_preproc_line_num (no line number can be negative)
None == -1

WhiteSpace == {" ", NL, "\t"}

Last(s) == s[Len(s)]
ButLast(s) == SubSeq(s, 1, Len(s) - 1)

\* str.startswith / str.endswith on one or two characters
StartsWith(line, c) == Len(line) > 0 /\ line[1] = c
EndsWith(line, c) == Len(line) > 0 /\ line[Len(line)] = c
EndsWith2(line, c, d) ==
    Len(line) > 1 /\ line[Len(line) - 1] = c /\ line[Len(line)] = d

\* position of the first c in s at or after p, Len(s) + 1 when there is none
RECURSIVE Find(_, _, _)
Find(s, c, p) ==
    IF p > Len(s) THEN Len(s) + 1
    ELSE IF s[p] = c THEN p
    ELSE Find(s, c, p + 1)

\* contents.split("\n"): always at least one (possibly empty) line
RECURSIVE Split(_)
Split(s) ==
    LET n == Find(s, NL, 1)
    IN  IF n > Len(s) THEN <<s>>
        ELSE <<SubSeq(s, 1, n - 1)>> \o Split(SubSeq(s, n + 1, Len(s)))

\* "\n".join(lines)
RECURSIVE JoinNL(_)
JoinNL(lines) ==
    IF Len(lines) = 0 THEN <<>>
    ELSE IF Len(lines) = 1 THEN lines[1]
    ELSE lines[1] \o <<NL>> \o JoinNL(Tail(lines))

\* "\\\n" in contents
HasContinuation(s) ==
    \E i \in 1..(Len(s) - 1) : s[i] = BS /\ s[i + 1] = NL

\* str.isdigit() on a token, and int() of it
IsDigit(tok) == \E n \in 0..MaxNum : ToString(n) = tok
ToInt(tok) == CHOOSE n \in 0..MaxNum : ToString(n) = tok

\* tokens that begin with the character '#'
HashHeads == {"#", "#line", "#include", "#define"}

\* the path of the primary fragment when a stage is run on its own
MainPath == "main.ino"

\* the paths of the fragments, in the order the glob returns them
PathPool == <<"a.ino", "src\\b.ino", "c.ino", "d.ino", "e.ino">>

\* path.replace("\\", "/")
replace(path) == IF path = "src\\b.ino" THEN "src/b.ino" ELSE path

\* Python's None where a path is expected (both are false in a condition)
NoPath == ""

\* '#line %d "%s"' % (n, path)
LineDirective(n, path) ==
    <<"#line", " ", ToString(n), " ", QUOTE, path, QUOTE>>

\* '# 1 "%s"' % path
FileMarker(n, path) == <<"#", " ", ToString(n), " ", QUOTE, path, QUOTE>>

(***************************************************************************)
(* _parse_preproc_line_num                                                 *)
(***************************************************************************)
parse_preproc_line_num(line) ==
    IF ~(Len(line) > 0 /\ line[1] \in HashHeads) THEN None
    ELSE LET s1 == Find(line, " ", 1)
             s2 == Find(line, " ", s1 + 1)
         IN  \* len(tokens) > 2 needs two separators; tokens[1] lies between
             IF s2 <= Len(line) /\ s2 = s1 + 2 /\ IsDigit(line[s1 + 1])
             THEN ToInt(line[s1 + 1])
             ELSE None

IsMarker(line) == parse_preproc_line_num(line) # None
MarkerNum(line) == parse_preproc_line_num(line)

(***************************************************************************)
(* _join_multiline_strings: the body of the loop over the lines            *)
(***************************************************************************)
JoinBodyStale(st, line) ==
    LET ln == IF IsMarker(line) THEN MarkerNum(line) ELSE st.linenum + 1
        nl == st.newlines
        glue(x) == [nl EXCEPT ![Len(nl)] = nl[Len(nl)] \o x]
    IN  IF EndsWith(line, BS) /\ StartsWith(line, QUOTE)
        THEN [linenum |-> ln, stropen |-> TRUE,
              newlines |-> Append(nl, ButLast(line))]
        ELSE IF EndsWith(line, BS) /\ st.stropen
        THEN [linenum |-> ln, stropen |-> TRUE,
              newlines |-> glue(ButLast(line))]
        ELSE IF ~EndsWith(line, BS) /\ st.stropen
                /\ EndsWith2(line, QUOTE, ";")
        THEN [linenum |-> ln, stropen |-> FALSE,
              newlines |-> Append(glue(line),
                                  LineDirective(st.linenum, replace(main_ino)))]
        ELSE [linenum |-> ln, stropen |-> st.stropen,
              newlines |-> Append(nl, line)]

JoinBody(st, line) ==
    LET ln == IF IsMarker(line) THEN MarkerNum(line) ELSE st.linenum + 1
        nl == st.newlines
        glue(x) == [nl EXCEPT ![Len(nl)] = nl[Len(nl)] \o x]
    IN  IF EndsWith(line, BS) /\ StartsWith(line, QUOTE)
        THEN [linenum |-> ln, stropen |-> TRUE,
              newlines |-> Append(nl, ButLast(line))]
        ELSE IF EndsWith(line, BS) /\ st.stropen
        THEN [linenum |-> ln, stropen |-> TRUE,
              newlines |-> glue(ButLast(line))]
        ELSE IF ~EndsWith(line, BS) /\ st.stropen
                /\ EndsWith2(line, QUOTE, ";")
        THEN [linenum |-> ln, stropen |-> FALSE,
              newlines |-> Append(glue(line), LineDirective(ln, replace(main_ino)))]
        ELSE [linenum |-> ln, stropen |-> st.stropen,
              newlines |-> Append(nl, line)]

JoinInit == [linenum |-> 0, stropen |-> FALSE, newlines |-> <<>>]

RECURSIVE JoinLoop(_, _, _)
JoinLoop(st, lines, i) ==
    IF i > Len(lines) THEN st
    ELSE JoinLoop(JoinBody(st, lines[i]), lines, i + 1)

\* _join_multiline_strings as a function of the text
join_multiline_strings(s) ==
    IF ~HasContinuation(s) THEN s
    ELSE JoinNL(JoinLoop(JoinInit, Split(s), 1).newlines)

(***************************************************************************)
(* The repairer run line by line on one text, then run again on its result *)
(***************************************************************************)
\* lines the preprocessed text is made of
JoinLinePool ==
    { <<QUOTE, "a", BS>>,            \* "a\       opens a literal
      <<"b", BS>>,                   \* b\        continues it
      <<"c", QUOTE, ";">>,           \* c";       closes it
      <<"x", ";">>,                  \* x;        an ordinary statement
      <<QUOTE, "a", BS, BS>>,        \* "a\\      escaped backslash, continued
      FileMarker(5, "a.ino") }       \* # 5 "a.ino"

JoinTexts ==
    { JoinNL(f) : f \in UNION { [1..n -> JoinLinePool] : n \in 1..MaxLines } }

ProtoIdle ==
    /\ prototypes = <<>>
    /\ split_pos = 0

PipeIdle ==
    /\ nodes = <<>>
    /\ main_ino = MainPath
    /\ pc = "idle"
    /\ raised = "no"
    /\ tmp_created = FALSE
    /\ out_exists = FALSE
    /\ produced = FALSE
    /\ exit_code = 0
    /\ registered = {}
    /\ out_file = NoPath

InitJoin ==
    /\ contents \in JoinTexts
    /\ phase = "start"
    /\ pos = 0
    /\ linenum = 0
    /\ stropen = FALSE
    /\ newlines = <<>>
    /\ out = <<>>
    /\ out2 = <<>>
    /\ ProtoIdle
    /\ PipeIdle

\* line 97-98: no continuation in the text, return it as it is
JoinFastPath ==
    /\ phase = "start"
    /\ ~HasContinuation(contents)
    /\ phase' = "joined"
    /\ out' = contents
    /\ UNCHANGED <<contents, pos, linenum, stropen, newlines, out2, protoVars, pipeVars>>

\* line 99-102: enter the loop
JoinEnter ==
    /\ phase = "start"
    /\ HasContinuation(contents)
    /\ phase' = "loop"
    /\ UNCHANGED <<contents, pos, linenum, stropen, newlines, out, out2,
                   protoVars, pipeVars>>

\* line 102-124: one iteration of the loop
JoinStep ==
    /\ phase = "loop"
    /\ pos < Len(Split(contents))
    /\ LET st == JoinBody([linenum |-> linenum, stropen |-> stropen,
                           newlines |-> newlines], Split(contents)[pos + 1])
       IN  /\ linenum' = st.linenum
           /\ stropen' = st.stropen
           /\ newlines' = st.newlines
    /\ pos' = pos + 1
    /\ UNCHANGED <<contents, phase, out, out2, protoVars, pipeVars>>

\* line 126
JoinReturn ==
    /\ phase = "loop"
    /\ pos = Len(Split(contents))
    /\ phase' = "joined"
    /\ out' = JoinNL(newlines)
    /\ UNCHANGED <<contents, pos, linenum, stropen, newlines, out2, protoVars, pipeVars>>

\* the repairer applied to its own result
RepairAgain ==
    /\ phase = "joined"
    /\ phase' = "again"
    /\ out2' = join_multiline_strings(out)
    /\ UNCHANGED <<contents, pos, linenum, stropen, newlines, out, protoVars, pipeVars>>

NextJoin ==
    \/ JoinFastPath
    \/ JoinEnter
    \/ JoinStep
    \/ JoinReturn
    \/ RepairAgain

SpecJoin == InitJoin /\ [][NextJoin]_vars

\* the loop and the function agree (sanity of the model)
JoinAgrees == phase \in {"joined", "again"} => out = join_multiline_strings(contents)

InLines == Split(contents)

\* the input line that governs line j: the nearest line marker before it
RECURSIVE GoverningMarker(_, _)
GoverningMarker(lines, j) ==
    IF j <= 1 THEN 0
    ELSE IF IsMarker(lines[j - 1]) THEN j - 1
    ELSE GoverningMarker(lines, j - 1)

\* logical line number of input line j (a marker numbered N says that the
\* next physical line is logical line N)
LogicalLine(lines, j) ==
    LET m == GoverningMarker(lines, j)
    IN  MarkerNum(lines[m]) + (j - m - 1)

\* the step just taken closed a collapsed literal and emitted a directive:
\* the line it read ends with '";' and the last line written does not
JustClosed ==
    /\ phase = "loop"
    /\ pos > 0
    /\ EndsWith2(InLines[pos], QUOTE, ";")
    /\ Len(newlines) > 1
    /\ ~EndsWith2(Last(newlines), QUOTE, ";")

\* C3 (as claimed): the repairer is idempotent on every text
C3_Idempotent == phase = "again" => out2 = out

MaxProtoLines == 3

\* the runs of word characters [a-z_\d]+ that occur in the texts
Identifiers ==
    {"void", "int", "f", "g", "fx", "if", "else", "while", "x", "a", "b",
     "c", "attach", "setup", "loop", "avoid", "VOID", "Setup"}

\* <<n, w>>: the identifier n is a proper prefix of the identifier w
ProperPrefixes == {<<"f", "fx">>, <<"a", "attach">>, <<"a", "avoid">>}

IsWord(tok) == tok \in Identifiers \/ IsDigit(tok)

\* the token at position p, "" beyond either end of the text
At(s, p) == IF p >= 1 /\ p <= Len(s) THEN s[p] ELSE ""

Min(a, b) == IF a < b THEN a ELSE b
Max(a, b) == IF a > b THEN a ELSE b

\* s[:k] and s[k:] with Python's reading of a negative k
SliceTo(s, k) ==
    SubSeq(s, 1, IF k < 0 THEN Max(Len(s) + k, 0) ELSE Min(k, Len(s)))
SliceFrom(s, k) ==
    SubSeq(s, (IF k < 0 THEN Max(Len(s) + k, 0) ELSE Min(k, Len(s))) + 1,
           Len(s))

\* str.strip()
RECURSIVE LStrip(_)
LStrip(s) ==
    IF Len(s) > 0 /\ s[1] \in WhiteSpace THEN LStrip(Tail(s)) ELSE s
RECURSIVE RStrip(_)
RStrip(s) ==
    IF Len(s) > 0 /\ s[Len(s)] \in WhiteSpace THEN RStrip(ButLast(s)) ELSE s
Strip(s) == RStrip(LStrip(s))

\* contents.rfind("\n", 0, end): 0-based offset of the last "\n" before
\* offset end, -1 when there is none
RECURSIVE rfind(_, _, _)
rfind(s, c, end) ==
    IF end <= 0 THEN -1
    ELSE IF s[end] = c THEN end - 1
    ELSE rfind(s, c, end - 1)

\* \s* : first position at or after p that holds no whitespace
RECURSIVE SkipWs(_, _)
SkipWs(s, p) == IF At(s, p) \in WhiteSpace THEN SkipWs(s, p + 1) ELSE p

\* [a-z_\d]+\*?\s+ at p: the position after it, 0 when it does not match
TypeEnd(s, p) ==
    IF ~IsWord(At(s, p)) THEN 0
    ELSE LET q == IF At(s, p + 1) = "*" THEN p + 2 ELSE p + 1
         IN  IF At(s, q) \in WhiteSpace THEN SkipWs(s, q) ELSE 0

\* [a-z_,\.\*\&\[\]\s\d]* : first position at or after p outside the class
IsArgChar(tok) ==
    tok \in ({",", ".", "*", "&", "[", "]"} \cup WhiteSpace) \/ IsWord(tok)
RECURSIVE SkipArgs(_, _)
SkipArgs(s, p) == IF IsArgChar(At(s, p)) THEN SkipArgs(s, p + 1) ELSE p

\* ([a-z_\d]+\s*) \( args \) \s* \{ at p
NameEnd(s, p) ==
    LET q == SkipWs(s, p + 1)
        r == SkipArgs(s, q + 1)
        t == SkipWs(s, r + 1)
    IN  IF IsWord(At(s, p)) /\ At(s, q) = "(" /\ At(s, r) = ")"
           /\ At(s, t) = "{"
        THEN [ok |-> TRUE, close |-> r, brace |-> t]
        ELSE [ok |-> FALSE, close |-> 0, brace |-> 0]

NoMatch ==
    [ok |-> FALSE, start |-> 0, end |-> 0, g1 |-> <<>>, g2 |-> <<>>,
     g3 |-> ""]

\* the match object: start() (1-based), end() (position of the brace),
\* group(1), group(2).strip() and group(3).strip()
MatchObject(s, p, typeAt, nameAt, n) ==
    [ok |-> TRUE, start |-> p, end |-> n.brace,
     g1 |-> SubSeq(s, p, n.close),
     g2 |-> IF At(s, typeAt + 1) = "*" THEN <<s[typeAt], "*">>
            ELSE <<s[typeAt]>>,
     g3 |-> s[nameAt]]

\* PROTOTYPE_RE matched at position p (^ under re.M: a line start); the
\* return type is tried with two words first, then with one
PROTOTYPE_RE(s, p) ==
    LET t1 == TypeEnd(s, p)
        t2 == IF t1 = 0 THEN 0 ELSE TypeEnd(s, t1)
        n2 == NameEnd(s, t2)
        n1 == NameEnd(s, t1)
    IN  IF ~(p = 1 \/ At(s, p - 1) = NL) \/ t1 = 0 THEN NoMatch
        ELSE IF t2 # 0 /\ n2.ok THEN MatchObject(s, p, t1, t2, n2)
        ELSE IF n1.ok THEN MatchObject(s, p, p, t1, n1)
        ELSE NoMatch

\* PROTOTYPE_RE.finditer(contents): non-overlapping matches, left to right
RECURSIVE finditer(_, _)
finditer(s, p) ==
    IF p > Len(s) THEN <<>>
    ELSE LET m == PROTOTYPE_RE(s, p)
         IN  IF m.ok THEN <<m>> \o finditer(s, m.end + 1)
             ELSE finditer(s, p + 1)

reserved_keywords == {"if", "else", "while"}

\* set([group(2).strip(), group(3).strip()]) & reserved_keywords
IsReserved(m) ==
    (Len(m.g2) = 1 /\ m.g2[1] \in reserved_keywords)
        \/ m.g3 \in reserved_keywords
NotReserved(m) == ~IsReserved(m)

NameOnlyNotReserved(m) == m.g3 \notin reserved_keywords

parse_prototypes_name_only(s) ==
    SelectSeq(finditer(s, 1), NameOnlyNotReserved)

\* _parse_prototypes
parse_prototypes(s) == SelectSeq(finditer(s, 1), NotReserved)

\* _get_total_lines
RECURSIVE TotalLoop(_, _, _)
TotalLoop(lines, i, total) ==
    IF i = 0 THEN total
    ELSE IF IsMarker(lines[i]) THEN total + MarkerNum(lines[i])
    ELSE TotalLoop(lines, i - 1, total + 1)
get_total_lines(s) == TotalLoop(Split(s), Len(Split(s)), 0)

\* PROTOPTRS_TPLRE % "|".join(names) matched at position i of s
HasNamePrefix(tok, names) ==
    \E n \in names : tok = n \/ <<n, tok>> \in ProperPrefixes
RECURSIVE SkipToAmp(_, _)
SkipToAmp(s, p) ==
    IF At(s, p) \in {"&", "(", ""} THEN p ELSE SkipToAmp(s, p + 1)
PROTOPTRS_TPLRE(s, i, names) ==
    /\ At(s, i) = "("
    /\ LET j == SkipToAmp(s, i + 1)
       IN  /\ At(s, j) = "&"
           /\ HasNamePrefix(At(s, j + 1), names)
           /\ \E k \in (j + 2)..Len(s) : s[k] = ")"

\* re.search: position of the leftmost match, 0 when there is none
RECURSIVE SearchPtrs(_, _, _)
SearchPtrs(s, i, names) ==
    IF i > Len(s) THEN 0
    ELSE IF PROTOPTRS_TPLRE(s, i, names) THEN i
    ELSE SearchPtrs(s, i + 1, names)

\* line 161-167: the insertion point, as a 0-based offset
SplitPos(s, protos) ==
    LET names == { protos[i].g3 : i \in 1..Len(protos) }
        first == protos[1].start - 1
        match_ptrs == SearchPtrs(SliceTo(s, first), 1, names)
    IN  IF match_ptrs > 0 THEN rfind(s, NL, match_ptrs - 1) ELSE first

\* "%s;" % ";\n".join([m.group(1) for m in prototypes])
RECURSIVE Declarations(_)
Declarations(protos) ==
    IF Len(protos) = 1 THEN protos[1].g1 \o <<";">>
    ELSE protos[1].g1 \o <<";", NL>> \o Declarations(Tail(protos))

\* line 169-176
Synthesis(s, protos, sp) ==
    Strip(SliceTo(s, sp)) \o <<NL>>
        \o Declarations(protos) \o <<NL>>
        \o LineDirective(get_total_lines(SliceTo(s, sp)), replace(main_ino)) \o <<NL>>
        \o Strip(SliceFrom(s, sp))

\* append_prototypes as a function of the text
append_prototypes(s) ==
    LET protos == parse_prototypes(s)
    IN  IF protos = <<>> THEN s
        ELSE Synthesis(s, protos, SplitPos(s, protos))

ProtoLinePool ==
    { <<"void", " ", "f", "(", ")", " ", "{">>,            \* void f() {
      <<"}">>,
      <<"int", " ", "if", " ", "(", "x", ")", " ", "{">>,  \* int if (x) {
      <<"else", " ", "g", "(", ")", " ", "{">>,            \* else g() {
      <<"attach", "(", "&", "f", ")", ";">>,               \* attach(&f);
      FileMarker(5, "a.ino"),                              \* # 5 "a.ino"
      <<"x", ";">>,
      <<>> }

ProtoTexts ==
    { JoinNL(f) :
        f \in UNION { [1..n -> ProtoLinePool] : n \in 1..MaxProtoLines } }

InitProto ==
    /\ contents \in ProtoTexts
    /\ phase = "start"
    /\ pos = 0
    /\ linenum = 0
    /\ stropen = FALSE
    /\ newlines = <<>>
    /\ out = <<>>
    /\ out2 = <<>>
    /\ ProtoIdle
    /\ PipeIdle

\* line 157
ParsePrototypes ==
    /\ phase = "start"
    /\ phase' = "parsed"
    /\ prototypes' = parse_prototypes(contents)
    /\ UNCHANGED <<contents, out, split_pos, joinVars, pipeVars>>

\* line 158-159
ReturnUnchanged ==
    /\ phase = "parsed"
    /\ prototypes = <<>>
    /\ phase' = "declared"
    /\ out' = contents
    /\ UNCHANGED <<contents, protoVars, joinVars, pipeVars>>

\* line 161-176
Synthesize ==
    /\ phase = "parsed"
    /\ prototypes # <<>>
    /\ phase' = "declared"
    /\ split_pos' = SplitPos(contents, prototypes)
    /\ out' = Synthesis(contents, prototypes, split_pos')
    /\ UNCHANGED <<contents, prototypes, joinVars, pipeVars>>

NextProto ==
    \/ ParsePrototypes
    \/ ReturnUnchanged
    \/ Synthesize

SpecProto == InitProto /\ [][NextProto]_vars

\* the steps and the function agree (sanity of the model)
ProtoAgrees == phase = "declared" => out = append_prototypes(contents)

(***************************************************************************)
(* Properties of the prototype synthesizer                                 *)
(***************************************************************************)
\* sub occurs in s at position i
OccursAt(s, sub, i) ==
    i >= 1 /\ i + Len(sub) - 1 <= Len(s)
        /\ SubSeq(s, i, i + Len(sub) - 1) = sub
Contains(s, sub) == \E i \in 1..Len(s) : OccursAt(s, sub, i)
\* position of the first occurrence of sub in s (s contains sub)
FirstOccurrence(s, sub) ==
    CHOOSE i \in 1..Len(s) :
        OccursAt(s, sub, i) /\ \A j \in 1..(i - 1) : ~OccursAt(s, sub, j)

\* every match of the signature pattern in the input, reserved or not
Candidates == finditer(contents, 1)
CandidateNames == { prototypes[i].g3 : i \in 1..Len(prototypes) }

\* 1-based number of the line that holds the 0-based offset k
LineOf(s, k) == Len(Split(SliceTo(s, k)))

\* C5 (as claimed): from the first surviving definition onward the output
\* of the synthesizer is the input from that definition onward (the ends of
\* the text trimmed), so no function body is altered
C5_BodiesUntouched ==
    (phase = "declared" /\ prototypes # <<>>)
        => LET tail == Strip(SliceFrom(contents, prototypes[1].start - 1))
           IN  /\ Len(out) >= Len(tail)
               /\ SubSeq(out, Len(out) - Len(tail) + 1, Len(out)) = tail

\* C8: a candidate whose name or return-type token is if, else or while is
\* never declared, and when every candidate is discarded that way the text
\* is returned unchanged
C8_ReservedNeverDeclared ==
    /\ phase \in {"parsed", "declared"}
        => \A i \in 1..Len(prototypes) :
              /\ prototypes[i].g3 \notin reserved_keywords
              /\ prototypes[i].g2 \notin { <<k>> : k \in reserved_keywords }
    /\ phase = "declared"
        => /\ \A i \in 1..Len(Candidates) :
                 (Candidates[i].g3 \in reserved_keywords
                    \/ Candidates[i].g2 \in { <<k>> : k \in reserved_keywords })
                 => ~Contains(out, Candidates[i].g1 \o <<";">>)
           /\ (\A i \in 1..Len(Candidates) :
                 Candidates[i].g3 \in reserved_keywords
                    \/ Candidates[i].g2 \in { <<k>> : k \in reserved_keywords })
              => out = contents

\* a candidate named if was discarded while another function was declared
C8_Witness ==
    /\ phase = "declared"
    /\ prototypes # <<>>
    /\ \E i \in 1..Len(Candidates) : Candidates[i].g3 = "if"
    /\ \E i \in 1..Len(Candidates) : Candidates[i].g2 = <<"else">>

\* the text before the first surviving candidate uses a pointer to one of
\* the candidate functions
UsageBeforeFirst ==
    /\ phase = "declared"
    /\ prototypes # <<>>
    /\ SearchPtrs(SliceTo(contents, prototypes[1].start - 1), 1,
                  CandidateNames) > 0

\* C9 (as claimed): when a pointer usage precedes the first surviving
\* candidate, the declaration block stands in the output before that usage
\* and before every function definition, wherever the usage line is
C9_DeclaredBeforeUse ==
    UsageBeforeFirst
        => LET block == FirstOccurrence(out, Declarations(prototypes))
           IN  /\ block < SearchPtrs(out, 1, CandidateNames)
               /\ \A i \in 1..Len(out) :
                     (PROTOTYPE_RE(out, i).ok
                        /\ NotReserved(PROTOTYPE_RE(out, i))) => block < i

\* the '#line' directive the synthesizer put in the output
EmittedDirective ==
    LET ls == Split(out)
    IN  ls[CHOOSE i \in 1..Len(ls) : StartsWith(ls[i], "#line")]

\* the input line that follows the insertion point: the usage line when the
\* point was moved back, the first surviving definition otherwise
LineAfterInsertion ==
    LET first == prototypes[1].start - 1
        match_ptrs == SearchPtrs(SliceTo(contents, first), 1, CandidateNames)
    IN  IF match_ptrs > 0 THEN LineOf(contents, match_ptrs - 1)
        ELSE LineOf(contents, first)

\* C10 (as claimed): the directive after the declaration block carries the
\* logical line number that the line following the insertion point had in
\* the input
C10_DirectiveAccurate ==
    (phase = "declared" /\ prototypes # <<>>
        /\ GoverningMarker(InLines, LineAfterInsertion) > 0)
        => MarkerNum(EmittedDirective)
             = LogicalLine(InLines, LineAfterInsertion)

(***************************************************************************)
(* merge, convert, process, _gcc_preprocess and ConvertInoToCpp            *)
(***************************************************************************)
MaxNodes == 3

\* the scratch file that mkstemp creates
TmpPath == "tmp"

\* out_file = self._main_ino + ".cpp"
OutPath(path) == path \o ".cpp"

IncludeLine == <<"#include", " ", "<Arduino.h>">>

\* DETECTMAIN_RE is not anchored and ignores case: the identifiers that end
\* with "void", and those that are "setup" or "loop"
EndsWithVoid(tok) == tok \in {"void", "VOID", "avoid"}
IsEntryName(tok) == tok \in {"setup", "loop", "Setup"}

\* DETECTMAIN_RE matched at position i: void\s+(setup|loop)\s*\(
DETECTMAIN_RE(s, i) ==
    /\ EndsWithVoid(At(s, i))
    /\ At(s, i + 1) \in WhiteSpace
    /\ LET j == SkipWs(s, i + 1)
       IN  IsEntryName(At(s, j)) /\ At(s, SkipWs(s, j + 1)) = "("

\* is_main_node
is_main_node(text) == \E i \in 1..Len(text) : DETECTMAIN_RE(text, i)

\* line 58-67 with every fragment appended, none moved to the front
RECURSIVE MergeLoopAppendOnly(_, _, _, _)
MergeLoopAppendOnly(ns, i, lines, main) ==
    IF i > Len(ns) THEN [lines |-> lines, main |-> main]
    ELSE LET block == <<FileMarker(1, replace(ns[i].path)), ns[i].text>>
         IN  IF is_main_node(ns[i].text)
             THEN MergeLoopAppendOnly(ns, i + 1, lines \o block, ns[i].path)
             ELSE MergeLoopAppendOnly(ns, i + 1, lines \o block, main)

\* line 58-67: the loop of merge over the nodes
RECURSIVE MergeLoop(_, _, _, _)
MergeLoop(ns, i, lines, main) ==
    IF i > Len(ns) THEN [lines |-> lines, main |-> main]
    ELSE LET block == <<FileMarker(1, replace(ns[i].path)), ns[i].text>>
         IN  IF is_main_node(ns[i].text)
             THEN MergeLoop(ns, i + 1, block \o lines, ns[i].path)
             ELSE MergeLoop(ns, i + 1, lines \o block, main)

\* line 69-72 of merge, for a non-empty collection
merge(ns) ==
    LET r == MergeLoop(ns, 1, <<>>, NoPath)
    IN  [main |-> IF r.main = NoPath THEN ns[1].path ELSE r.main,
         text |-> IF r.lines # <<>> THEN JoinNL(<<IncludeLine>> \o r.lines)
                  ELSE <<>>]

\* the texts of the fragments
FragmentTexts ==
    { <<"void", " ", "setup", "(", ")", " ", "{", "}", NL,
        "void", " ", "loop", "(", ")", " ", "{", "}">>,
      <<"VOID", NL, "Setup", " ", "(", ")", " ", "{", "}">>,
      <<"void", " ", "f", "(", ")", " ", "{", "}">>,
      <<"int", " ", "x", ";">> }

NodeLists ==
    UNION { { [i \in 1..n |-> [path |-> PathPool[i], text |-> f[i]]] :
                f \in [1..n -> FragmentTexts] } : n \in 0..MaxNodes }

\* what is read back from the output file: the preprocessor puts a marker
\* for its input file before the text and ends the text with a newline
Preprocessed(text) == FileMarker(1, TmpPath) \o <<NL>> \o text \o <<NL>>

InitConvert ==
    /\ nodes \in NodeLists
    /\ out_exists \in BOOLEAN
    /\ contents = <<>>
    /\ phase = "idle"
    /\ pos = 0
    /\ linenum = 0
    /\ stropen = FALSE
    /\ newlines = <<>>
    /\ out = <<>>
    /\ out2 = <<>>
    /\ ProtoIdle
    /\ main_ino = NoPath
    /\ pc = "convert"
    /\ raised = "no"
    /\ tmp_created = FALSE
    /\ produced = FALSE
    /\ exit_code = 0
    /\ registered = {}
    /\ out_file = NoPath

stageVars == <<phase, out, joinVars, protoVars>>

\* line 180-183, 49-53, 55-72: the nodes are merged; an empty collection
\* fails the assertion of merge, and the error leaves ConvertInoToCpp
Merge ==
    /\ pc = "convert"
    /\ IF nodes = <<>>
       THEN /\ raised' = "AssertionError"
            /\ pc' = "raised"
            /\ UNCHANGED <<contents, main_ino>>
       ELSE /\ contents' = merge(nodes).text
            /\ main_ino' = merge(nodes).main
            /\ pc' = IF merge(nodes).text = <<>> THEN "return" ELSE "mkstemp"
            /\ UNCHANGED raised
    /\ UNCHANGED <<nodes, tmp_created, out_exists, produced, exit_code,
                   registered, out_file, stageVars>>

\* line 85-87: the scratch file is created and the merged text written
WriteTmp ==
    /\ pc = "mkstemp"
    /\ tmp_created' = TRUE
    /\ pc' = "execute"
    /\ UNCHANGED <<contents, nodes, main_ino, raised, out_exists, produced,
                   exit_code, registered, out_file, stageVars>>

\* line 88-92: the preprocessor runs; Execute hands back its exit status,
\* which is not looked at.  A run that succeeds leaves the output file, a
\* run that fails leaves none (a file of an earlier run stays where it is)
Execute ==
    /\ pc = "execute"
    /\ \E code \in {0, 1}, made \in BOOLEAN :
          /\ made <=> code = 0
          /\ exit_code' = code
          /\ produced' = made
          /\ out_exists' = (out_exists \/ made)
    /\ pc' = "register"
    /\ UNCHANGED <<contents, nodes, main_ino, raised, tmp_created,
                   registered, out_file, stageVars>>

\* line 88: the invocation itself raises
ExecuteRaises ==
    /\ pc = "execute"
    /\ raised' = "Error"
    /\ pc' = "raised"
    /\ UNCHANGED <<contents, nodes, main_ino, tmp_created, out_exists,
                   produced, exit_code, registered, out_file, stageVars>>

\* line 93-94 and 76: the scratch file is registered for deletion, and
\* process asserts that the output file exists
RegisterTmp ==
    /\ pc = "register"
    /\ registered' = registered \cup {TmpPath}
    /\ IF out_exists
       THEN pc' = "read" /\ UNCHANGED raised
       ELSE pc' = "raised" /\ raised' = "AssertionError"
    /\ UNCHANGED <<contents, nodes, main_ino, tmp_created, out_exists,
                   produced, exit_code, out_file, stageVars>>

\* line 77-78: the output file is read; a file this run did not produce
\* holds whatever an earlier run left there
ReadOut ==
    /\ pc = "read"
    /\ contents' = IF produced THEN Preprocessed(contents)
                   ELSE Preprocessed(<<"x", ";">>)
    /\ pc' = "write"
    /\ UNCHANGED <<nodes, main_ino, raised, tmp_created, out_exists,
                   produced, exit_code, registered, out_file, stageVars>>

\* line 77-78: opening or reading the output file raises
ReadFails ==
    /\ pc = "read"
    /\ raised' = "IOError"
    /\ pc' = "raised"
    /\ UNCHANGED <<contents, nodes, main_ino, tmp_created, out_exists,
                   produced, exit_code, registered, out_file, stageVars>>

\* line 79-81: repair, prototype synthesis, and the result written back
WriteOut ==
    /\ pc = "write"
    /\ out' = append_prototypes(join_multiline_strings(contents))
    /\ pc' = "return"
    /\ out_file' = OutPath(main_ino)
    /\ UNCHANGED <<contents, nodes, main_ino, raised, tmp_created,
                   out_exists, produced, exit_code, registered, phase,
                   joinVars, protoVars>>

\* line 80-81: opening or writing the output file raises
WriteFails ==
    /\ pc = "write"
    /\ raised' = "IOError"
    /\ pc' = "raised"
    /\ UNCHANGED <<contents, nodes, main_ino, tmp_created, out_exists,
                   produced, exit_code, registered, out_file, stageVars>>

\* line 82, 53, 183-185: the path is returned and registered for deletion
RegisterOut ==
    /\ pc = "return"
    /\ registered' = registered \cup {out_file}
    /\ pc' = "done"
    /\ UNCHANGED <<contents, nodes, main_ino, raised, tmp_created,
                   out_exists, produced, exit_code, out_file, stageVars>>

NextConvert ==
    \/ Merge
    \/ WriteTmp
    \/ Execute
    \/ ExecuteRaises
    \/ RegisterTmp
    \/ ReadOut
    \/ ReadFails
    \/ WriteOut
    \/ WriteFails
    \/ RegisterOut

SpecConvert == InitConvert /\ [][NextConvert]_vars

(***************************************************************************)
(* Properties of the conversion                                            *)
(***************************************************************************)
Finished == pc \in {"done", "raised"}

\* C1 (as claimed): converting an empty fragment collection is a silent
\* no-op: no error reaches the caller, nothing is preprocessed and no
\* output path is produced
C1_EmptyIsNoOp ==
    (nodes = <<>> /\ Finished)
        => raised = "no" /\ ~tmp_created /\ out_file = NoPath

MainNodes == { i \in 1..Len(nodes) : is_main_node(nodes[i].text) }
TheMain == CHOOSE i \in MainNodes : TRUE

\* the marker and text blocks of all nodes but node k, in input order
RECURSIVE BlocksExcept(_, _, _)
BlocksExcept(ns, i, k) ==
    IF i > Len(ns) THEN <<>>
    ELSE IF i = k THEN BlocksExcept(ns, i + 1, k)
    ELSE <<FileMarker(1, replace(ns[i].path)), ns[i].text>>
            \o BlocksExcept(ns, i + 1, k)

\* C2: when exactly one fragment defines an entry point, its block is the
\* first block of the merged unit, right after the include line, the other
\* fragments follow in input order, and it is the primary fragment
C2_MainFragmentFirst ==
    (pc = "mkstemp" /\ Cardinality(MainNodes) = 1)
        => /\ contents =
                JoinNL(<<IncludeLine,
                         FileMarker(1, replace(nodes[TheMain].path)),
                         nodes[TheMain].text>>
                       \o BlocksExcept(nodes, 1, TheMain))
           /\ main_ino = nodes[TheMain].path

\* the only entry-point fragment is the last of three
C2_Witness ==
    /\ pc = "mkstemp"
    /\ Cardinality(MainNodes) = 1
    /\ Len(nodes) >= 3
    /\ TheMain = Len(nodes)

\* C6 (as claimed): when the preprocessor exits non-zero or produces no
\* output file, process raises, repairs and declares nothing and returns no
\* path, even if a file already exists at the output path
C6_FailureIsFatal ==
    (pc \notin {"convert", "mkstemp", "execute"}
        /\ (exit_code # 0 \/ ~produced))
        => /\ pc \in {"register", "raised"}
           /\ out = <<>>
           /\ out_file = NoPath

\* C7 (as claimed): however the conversion ends, every temporary file
\* created so far is registered for deletion at exit
C7_CleanupRegistered ==
    Finished
        => /\ tmp_created => TmpPath \in registered
           /\ produced => OutPath(main_ino) \in registered

====
